---------------------------- MODULE Spec2Model ----------------------------
(***************************************************************************)
(* A model of the Hugging Face trending crawler: the number normaliser     *)
(* (crawl_models.parse_number, CrawTrendingPapers.parse_number), the two   *)
(* card extractors (parse_trending_cards, parse_models), the paper         *)
(* pipeline with its concurrent detail fetches (CrawTrendingPapers.run)    *)
(* and the orchestration of analyze_app.load_data.                         *)
(*                                                                         *)
(* A text is a sequence of one-character strings, <<"1", ".", "2", "k">>   *)
(* for "1.2k", so that strip, lower, replace, endswith, float() and int()  *)
(* are computed character by character as Python computes them.            *)
(***************************************************************************)
EXTENDS Integers, Sequences, FiniteSets, TLC

VARIABLES
    num_text,       \* normaliser: the text handed to parse_number
    num_result,     \* normaliser: what each parse_number gave for it
    papers,         \* parse_trending_cards: its local dict, url -> card
    run_pc,         \* CrawTrendingPapers.run: where it stands
    requests,       \* the URLs requested from the network so far, in order
    listing,        \* the network's answer to the listing request
    page_content,   \* run's page_content
    paper_cards,    \* run's paper_cards
    tasks,          \* the fetch tasks handed to asyncio.gather
    completion,     \* the tasks that have finished, in the order they did
    pages,          \* run's pages, the list gather returned
    papers_data,    \* run's papers_data
    run_result,     \* what run returned or raised
    model_page,     \* parse_models: the articles its loop has taken so far
    models,         \* parse_models: its local list
    models_exc,     \* parse_models: the exception that ended it, if any
    models_pc,      \* CrawModels.run: where it stands
    models_listing, \* the network's answer to the models listing request
    models_result,  \* what CrawModels.run returned or raised
    app_pc,         \* load_data: where run_crawlers stands
    app_result      \* what load_data returned or raised

numVars == <<num_text, num_result>>

runVars == <<run_pc, requests, listing, page_content, paper_cards, tasks,
             completion, pages, papers_data, run_result>>

extractorVars == <<model_page, models, models_exc>>

modelsRunVars == <<models_pc, models_listing, models_result>>

appVars == <<app_pc, app_result>>

vars == <<numVars, papers, runVars, extractorVars, modelsRunVars, appVars>>

(***************************************************************************)
(* Bounds of the model.                                                    *)
(***************************************************************************)
\* longest text handed to the normaliser
MaxLen == 4

\* most articles on a listing page
MaxArticles == 3

\* Python's None
None == [tag |-> "None"]

PyInt(n) == [tag |-> "int", val |-> n]

Raise(e) == [tag |-> "raise", exc |-> e]

\* a Python str: a text, as the sequence of its characters or tokens
Str(s) == [tag |-> "str", s |-> s]

\* a variable not assigned yet
Unset == [tag |-> "unset"]

(***************************************************************************)
(* Text primitives of the Python str type, over the characters the model   *)
(* enumerates.                                                             *)
(***************************************************************************)
\* the characters texts are built from
Alphabet == {"1", "2", ".", ",", "k", "M", "-", " ", "i", "n", "f", "a"}

Whitespace == {" "}

DigitChars == {"0", "1", "2", "3", "4", "5", "6", "7", "8", "9"}

DigitVal(c) ==
    CASE c = "0" -> 0 [] c = "1" -> 1 [] c = "2" -> 2 [] c = "3" -> 3
      [] c = "4" -> 4 [] c = "5" -> 5 [] c = "6" -> 6 [] c = "7" -> 7
      [] c = "8" -> 8 [] c = "9" -> 9

\* str.lower() on one character
LowerChar(c) ==
    CASE c = "K" -> "k" [] c = "M" -> "m" [] c = "I" -> "i"
      [] c = "N" -> "n" [] c = "F" -> "f" [] c = "A" -> "a"
      [] OTHER -> c

Lower(s) == [i \in 1..Len(s) |-> LowerChar(s[i])]

RECURSIVE LStrip(_, _)
LStrip(s, chars) ==
    IF s # <<>> /\ Head(s) \in chars THEN LStrip(Tail(s), chars) ELSE s

RECURSIVE RStrip(_, _)
RStrip(s, chars) ==
    IF s # <<>> /\ s[Len(s)] \in chars
    THEN RStrip(SubSeq(s, 1, Len(s) - 1), chars)
    ELSE s

\* str.strip(chars)
StripChars(s, chars) == RStrip(LStrip(s, chars), chars)

\* str.strip()
Strip(s) == StripChars(s, Whitespace)

\* str.replace(c, "") for a one-character c
RemoveChar(s, c) == SelectSeq(s, LAMBDA x : x # c)

\* str.endswith(c) for a one-character c
EndsWith(s, c) == s # <<>> /\ s[Len(s)] = c

\* text[:-1]
DropLast(s) == SubSeq(s, 1, Len(s) - 1)

\* str.isdigit()
IsDigit(s) == s # <<>> /\ \A i \in 1..Len(s) : s[i] \in DigitChars

RECURSIVE DigitsValue(_)
DigitsValue(s) ==
    IF s = <<>> THEN 0
    ELSE 10 * DigitsValue(DropLast(s)) + DigitVal(s[Len(s)])

RECURSIVE Pow10(_)
Pow10(n) == IF n = 0 THEN 1 ELSE 10 * Pow10(n - 1)

(***************************************************************************)
(* int(text): surrounding whitespace is ignored, one optional sign, then   *)
(* decimal digits only; anything else is a ValueError.                     *)
(***************************************************************************)
IntOfStr(s) ==
    LET t == Strip(s)
        signed == t # <<>> /\ Head(t) \in {"-", "+"}
        body == IF signed THEN Tail(t) ELSE t
    IN  IF IsDigit(body)
        THEN PyInt(IF signed /\ Head(t) = "-"
                   THEN 0 - DigitsValue(body) ELSE DigitsValue(body))
        ELSE Raise("ValueError")

(***************************************************************************)
(* float(text): surrounding whitespace is ignored, one optional sign, then *)
(* "inf", "infinity", "nan" (any case) or digits with at most one point    *)
(* and at least one digit.  A finite value is kept exactly, as             *)
(* mant / 10^scale.                                                        *)
(***************************************************************************)
InfWords == {<<"i", "n", "f">>, <<"i", "n", "f", "i", "n", "i", "t", "y">>}

NanWord == <<"n", "a", "n">>

FloatOfStr(s) ==
    LET t == Strip(s)
        signed == t # <<>> /\ Head(t) \in {"-", "+"}
        neg == signed /\ Head(t) = "-"
        body == IF signed THEN Tail(t) ELSE t
        points == {i \in 1..Len(body) : body[i] = "."}
        digits == RemoveChar(body, ".")
    IN  IF Lower(body) \in InfWords THEN [tag |-> "float", kind |-> "inf", neg |-> neg]
        ELSE IF Lower(body) = NanWord THEN [tag |-> "float", kind |-> "nan", neg |-> neg]
        ELSE IF Cardinality(points) <= 1 /\ IsDigit(digits)
        THEN [tag |-> "float", kind |-> "finite", neg |-> neg,
              mant |-> DigitsValue(digits),
              scale |-> IF points = {} THEN 0
                        ELSE Len(body) - (CHOOSE i \in points : TRUE)]
        ELSE Raise("ValueError")

(***************************************************************************)
(* int(float(prefix) * mult): the product truncated toward zero; int()     *)
(* of a NaN is a ValueError and int() of an infinity an OverflowError.     *)
(***************************************************************************)
IntOfScaled(prefix, mult) ==
    LET f == FloatOfStr(prefix)
    IN  IF f.tag = "raise" THEN f
        ELSE IF f.kind = "nan" THEN Raise("ValueError")
        ELSE IF f.kind = "inf" THEN Raise("OverflowError")
        ELSE LET q == (f.mant * mult) \div Pow10(f.scale)
             IN  PyInt(IF f.neg THEN 0 - q ELSE q)

\* try: ... except ValueError: return None
ExceptValueError(r) ==
    IF r.tag = "raise" /\ r.exc = "ValueError" THEN None ELSE r

\* try: ... except: return None
ExceptAll(r) == IF r.tag = "raise" THEN None ELSE r

\* crawl_models.parse_number
parse_number(txt) ==
    IF txt = <<>> THEN None
    ELSE LET t == Strip(Lower(txt))
         IN  ExceptValueError(
                 IF EndsWith(t, "k") THEN IntOfScaled(DropLast(t), 1000)
                 ELSE IF EndsWith(t, "m") THEN IntOfScaled(DropLast(t), 1000000)
                 ELSE IntOfStr(RemoveChar(t, ",")))

\* CrawTrendingPapers.parse_number
paper_parse_number(txt) ==
    IF txt = <<>> THEN None
    ELSE LET t == RemoveChar(Lower(Strip(txt)), ",")
         IN  ExceptAll(
                 IF EndsWith(t, "k") THEN IntOfScaled(DropLast(t), 1000)
                 ELSE IF EndsWith(t, "m") THEN IntOfScaled(DropLast(t), 1000000)
                 ELSE IF IsDigit(t) THEN IntOfStr(t)
                 ELSE IntOfStr(t))

(***************************************************************************)
(* Dates.  A date label is a sequence of tokens, <<"Published on ", "Jan", *)
(* " ", "5", ", ", "2024">>; an ISO date is <<"2024", "-", "01", "-",      *)
(* "05">>.                                                                 *)
(***************************************************************************)
MonthAbbr == <<"Jan", "Feb", "Mar", "Apr", "May", "Jun",
               "Jul", "Aug", "Sep", "Oct", "Nov", "Dec">>

TwoDigits == <<"01", "02", "03", "04", "05", "06", "07", "08", "09", "10",
               "11", "12", "13", "14", "15", "16", "17", "18", "19", "20",
               "21", "22", "23", "24", "25", "26", "27", "28", "29", "30",
               "31">>

\* the day numbers %d reads, with or without a leading zero
DayTokens ==
    [t \in {"1", "5", "29", "30", "31", "05"} |->
        CASE t = "1" -> 1 [] t = "5" -> 5 [] t = "29" -> 29 [] t = "30" -> 30
          [] t = "31" -> 31 [] t = "05" -> 5]

\* the four-digit years %Y reads
YearTokens == [t \in {"2023", "2024"} |-> IF t = "2023" THEN 2023 ELSE 2024]

IsLeap(y) == (y % 4 = 0 /\ y % 100 # 0) \/ y % 400 = 0

DaysIn(m, y) ==
    IF m = 2 THEN (IF IsLeap(y) THEN 29 ELSE 28)
    ELSE IF m \in {4, 6, 9, 11} THEN 30 ELSE 31

MonthNumber(tok) == CHOOSE m \in 1..12 : MonthAbbr[m] = tok

\* datetime.strptime(label, "%b %d, %Y")
Strptime(s) ==
    IF /\ Len(s) = 5
       /\ s[1] \in {MonthAbbr[m] : m \in 1..12}
       /\ s[2] = " "
       /\ s[3] \in DOMAIN DayTokens
       /\ s[4] = ", "
       /\ s[5] \in DOMAIN YearTokens
       /\ DayTokens[s[3]] <= DaysIn(MonthNumber(s[1]), YearTokens[s[5]])
    THEN [tag |-> "date", y |-> YearTokens[s[5]], m |-> MonthNumber(s[1]),
          d |-> DayTokens[s[3]]]
    ELSE Raise("ValueError")

YearText(y) == CHOOSE t \in DOMAIN YearTokens : YearTokens[t] = y

\* date.strftime("%Y-%m-%d")
Strftime(dt) == <<YearText(dt.y), "-", TwoDigits[dt.m], "-", TwoDigits[dt.d]>>

\* a YYYY-MM-DD string naming a day of the calendar
IsISODate(s) ==
    /\ Len(s) = 5
    /\ s[1] \in DOMAIN YearTokens
    /\ s[2] = "-" /\ s[4] = "-"
    /\ \E m \in 1..12 : \E d \in 1..31 :
          /\ s[3] = TwoDigits[m] /\ s[5] = TwoDigits[d]
          /\ d <= DaysIn(m, YearTokens[s[1]])

\* str.replace(tok, "") on a token text
RemoveToken(s, tok) == SelectSeq(s, LAMBDA x : x # tok)

(***************************************************************************)
(* A Python dict: its keys in insertion order and the value of each.       *)
(***************************************************************************)
EmptyDict == [keys |-> <<>>, at |-> <<>>]

Range(seq) == {seq[i] : i \in 1..Len(seq)}

DictHas(d, k) == k \in Range(d.keys)

\* d[k] = v
DictSet(d, k, v) ==
    IF DictHas(d, k)
    THEN [d EXCEPT !.at = [x \in Range(d.keys) |-> IF x = k THEN v ELSE d.at[x]]]
    ELSE [keys |-> Append(d.keys, k),
          at |-> [x \in Range(d.keys) \cup {k} |-> IF x = k THEN v ELSE d.at[x]]]

\* list(d.values())
DictValues(d) == [i \in 1..Len(d.keys) |-> d.at[d.keys[i]]]

(***************************************************************************)
(* Card Extractor (papers).  An <article> of the trending page is what the *)
(* extractor's five lookups find in it (None: the lookup finds nothing):   *)
(*   link    the href of its first a[href^='/papers/']                     *)
(*   upvote  the text of its .font-semibold.text-orange-500 element        *)
(*   pub     the text of its first span matching the published pattern     *)
(*   github  the href of its first link to github.com                      *)
(*   star    the text of that link's first span holding a digit            *)
(*   arxiv   the href of its first link to arxiv.org                       *)
(***************************************************************************)
BASE_URL == "https://huggingface.co"

\* f"https://huggingface.co{href}"
UrlOf(href) == Str(<<BASE_URL>> \o href.s)

PaperHrefs == {Str(<<"/papers/", "2401.00001">>), Str(<<"/papers/", "2401.00002">>)}

UpvoteTexts == {Str(<<"1", ".", "2", "k">>), Str(<<"-">>), Str(<<"-", "2">>)}

PubLabels == {Str(<<"Published on ", "Feb", " ", "29", ", ", "2024">>),
              Str(<<"Published on ", "Feb", " ", "30", ", ", "2024">>)}

GithubHrefs == {Str("https://github.com/org/repo")}

StarTexts == {Str(<<"1", "2">>), Str(<<"1", "2", "+">>)}

ArxivHrefs == {Str("https://arxiv.org/abs/2401.00001")}

\* a github link is found with or without a star span, a star span only in one
GithubParts ==
    {[github |-> None, star |-> None]}
        \cup [github : GithubHrefs, star : StarTexts \cup {None}]

\* articles with a paper link, and two without one
Articles ==
    {[link |-> l, upvote |-> u, pub |-> p, github |-> g.github,
      star |-> g.star, arxiv |-> x] :
        l \in PaperHrefs, u \in UpvoteTexts \cup {None},
        p \in PubLabels \cup {None}, g \in GithubParts,
        x \in ArxivHrefs \cup {None}}
    \cup {[link |-> None, upvote |-> u, pub |-> None, github |-> None,
           star |-> None, arxiv |-> None] : u \in {None, Str(<<"1", "2">>)}}

\* the dict a first card of a URL starts from
NewCard(paper_url) ==
    [paper_url |-> paper_url, github |-> None, arxiv |-> None,
     upvotes |-> None, published |-> None, github_stars |-> None]

\* the Upvotes block
Upvotes(card, a) ==
    IF a.upvote # None
    THEN [card EXCEPT !.upvotes = paper_parse_number(a.upvote.s)]
    ELSE card

\* the label is stored as it is read, without normalising it
PublishedAsRead(card, a) ==
    IF a.pub # None
    THEN [card EXCEPT !.published =
              Str(RemoveToken(Strip(a.pub.s), "Published on "))]
    ELSE card

\* the Published block
Published(card, a) ==
    IF a.pub # None
    THEN LET pub_text == RemoveToken(Strip(a.pub.s), "Published on ")
             pub_date == Strptime(pub_text)
         IN  [card EXCEPT !.published =
                  IF pub_date.tag = "raise" THEN Str(pub_text)
                  ELSE Str(Strftime(pub_date))]
    ELSE card

\* the GitHub + stars block
Github(card, a) ==
    IF a.github # None
    THEN LET c == [card EXCEPT !.github = a.github]
         IN  IF a.star # None
             THEN [c EXCEPT !.github_stars = paper_parse_number(a.star.s)]
             ELSE c
    ELSE card

\* the arXiv block
Arxiv(card, a) ==
    IF a.arxiv # None THEN [card EXCEPT !.arxiv = a.arxiv] ELSE card

\* one iteration of the loop over the page's articles
MergeArticle(d, a) ==
    IF a.link = None THEN d
    ELSE LET paper_url == UrlOf(a.link)
             card == IF DictHas(d, paper_url) THEN d.at[paper_url]
                     ELSE NewCard(paper_url)
         IN  DictSet(d, paper_url, Arxiv(Github(Published(Upvotes(card, a), a), a), a))

\* CrawTrendingPapers.parse_trending_cards on a page, its articles as a sequence
RECURSIVE parse_trending_cards(_)
parse_trending_cards(page) ==
    IF page = <<>> THEN EmptyDict
    ELSE MergeArticle(parse_trending_cards(DropLast(page)), page[Len(page)])

(***************************************************************************)
(* The network.  A request is answered by a response with a status and a   *)
(* body, or ends in a connection error or timeout.                         *)
(***************************************************************************)
Statuses == {200, 404}

NetworkError == [kind |-> "error"]

Response(status, body) == [kind |-> "response", status |-> status, body |-> body]

Success(status) == status \in 200..299

\* the text of a page: what the parsers find in it
Html(page) == [tag |-> "html", page |-> page]

\* fetch_url: session.get(url), then response.text()
fetch_url(resp) ==
    IF resp.kind = "error" THEN Raise("ClientError") ELSE Html(resp.body)

\* the detail pages the site may serve for a paper: with or without an <h1>
DetailPages(url) ==
    {[h1 |-> h, p |-> Str(<<" ", "Abstract of ", url.s[2], url.s[3]>>)] :
        h \in {None, Str(<<"Title of ", url.s[2], url.s[3], " ">>)}}

\* CrawTrendingPapers.parse_paper_details
parse_paper_details(page) ==
    [title |-> IF page.h1 # None THEN Str(Strip(page.h1.s)) ELSE Str(<<"N/A">>),
     abstract |-> IF page.p # None THEN Str(Strip(page.p.s)) ELSE Str(<<"N/A">>)]

\* the record run appends for a card and its detail page
PaperRecord(card, page) ==
    LET details == parse_paper_details(page)
    IN  [title |-> details.title, abstract |-> details.abstract,
         url |-> card.paper_url, github |-> card.github, arxiv |-> card.arxiv,
         upvotes |-> card.upvotes, published |-> card.published,
         github_stars |-> card.github_stars]

(***************************************************************************)
(* The normaliser on every text of at most MaxLen characters.              *)
(***************************************************************************)
RECURSIVE TextsUpTo(_)
TextsUpTo(n) ==
    IF n = 0 THEN {<<>>}
    ELSE LET shorter == TextsUpTo(n - 1)
         IN  shorter \cup {Append(t, c) : t \in shorter, c \in Alphabet}

NormalizerIdle == num_text = <<>> /\ num_result = Unset

CardsIdle == papers = EmptyDict

RunAt(pc) ==
    /\ run_pc = pc
    /\ requests = <<>>
    /\ listing = Unset
    /\ page_content = Unset
    /\ paper_cards = Unset
    /\ tasks = <<>>
    /\ completion = <<>>
    /\ pages = <<>>
    /\ papers_data = <<>>
    /\ run_result = Unset

ExtractorIdle == model_page = <<>> /\ models = <<>> /\ models_exc = Unset

ModelsRunAt(pc) ==
    models_pc = pc /\ models_listing = Unset /\ models_result = Unset

AppAt(pc) == app_pc = pc /\ app_result = Unset

InitNormalizer ==
    /\ num_text \in TextsUpTo(MaxLen)
    /\ num_result = Unset
    /\ CardsIdle
    /\ RunAt("idle")
    /\ ExtractorIdle
    /\ ModelsRunAt("idle")
    /\ AppAt("idle")

\* both parse_number functions applied to the text
Normalize ==
    /\ num_result = Unset
    /\ num_result' = [models |-> parse_number(num_text),
                      paper |-> paper_parse_number(num_text)]
    /\ UNCHANGED <<num_text, papers, runVars, extractorVars, modelsRunVars, appVars>>

NextNormalizer == Normalize

SpecNormalizer == InitNormalizer /\ [][NextNormalizer]_vars

(***************************************************************************)
(* The paper card extractor on any sequence of articles.                   *)
(***************************************************************************)
InitCards ==
    /\ NormalizerIdle
    /\ papers = EmptyDict
    /\ RunAt("idle")
    /\ ExtractorIdle
    /\ ModelsRunAt("idle")
    /\ AppAt("idle")

\* the loop of parse_trending_cards takes the page's next article
NextArticle ==
    /\ \E a \in Articles : papers' = MergeArticle(papers, a)
    /\ UNCHANGED <<numVars, runVars, extractorVars, modelsRunVars, appVars>>

NextCards == NextArticle

SpecCards == InitCards /\ [][NextCards]_vars

(***************************************************************************)
(* CrawTrendingPapers.run.                                                 *)
(***************************************************************************)
\* the articles of the listing pages the pipeline is run on
RunArticles ==
    {a \in Articles : /\ a.pub = None /\ a.github = None /\ a.arxiv = None
                      /\ a.upvote \in {None, Str(<<"1", ".", "2", "k">>)}
                      /\ (a.link = None => a.upvote = None)}

RECURSIVE PagesUpTo(_, _)
PagesUpTo(articles, n) ==
    IF n = 0 THEN {<<>>}
    ELSE LET shorter == PagesUpTo(articles, n - 1)
         IN  shorter \cup {Append(pg, a) : pg \in shorter, a \in articles}

ListingUrl == Str(<<BASE_URL, "/papers/trending">>)

\* page_content = await self.fetch_url(url)
FetchListing(bodies) ==
    /\ run_pc = "fetch_listing"
    /\ \E resp \in {NetworkError} \cup
                    {Response(st, b) : st \in Statuses, b \in bodies} :
          /\ listing' = resp
          /\ requests' = Append(requests, ListingUrl)
          /\ IF fetch_url(resp).tag = "raise"
             THEN /\ run_pc' = "failed"
                  /\ run_result' = fetch_url(resp)
                  /\ UNCHANGED page_content
             ELSE /\ run_pc' = "parse_cards"
                  /\ page_content' = fetch_url(resp)
                  /\ UNCHANGED run_result
    /\ UNCHANGED <<paper_cards, tasks, completion, pages, papers_data>>
    /\ UNCHANGED <<numVars, papers, extractorVars, modelsRunVars, appVars>>

\* paper_cards = await self.parse_trending_cards(page_content)
ParseCards ==
    /\ run_pc = "parse_cards"
    /\ paper_cards' = parse_trending_cards(page_content.page)
    /\ papers_data' = <<>>
    /\ run_pc' = "issue"
    /\ UNCHANGED <<requests, listing, page_content, tasks, completion, pages,
                   run_result>>
    /\ UNCHANGED <<numVars, papers, extractorVars, modelsRunVars, appVars>>

\* tasks = [self.fetch_url(card["paper_url"]) for card in paper_cards.values()]
TasksFor(cards) ==
    [i \in 1..Len(cards.keys) |->
        [url |-> DictValues(cards)[i].paper_url, state |-> "pending",
         response |-> Unset, result |-> Unset]]

\* asyncio.gather(*tasks) starts every task: each sends its request
Gather ==
    /\ run_pc = "issue"
    /\ tasks' = TasksFor(paper_cards)
    /\ requests' = requests \o [i \in 1..Len(paper_cards.keys) |-> tasks'[i].url]
    /\ run_pc' = "gather"
    /\ UNCHANGED <<listing, page_content, paper_cards, completion, pages,
                   papers_data, run_result>>
    /\ UNCHANGED <<numVars, papers, extractorVars, modelsRunVars, appVars>>

\* the network answers one of the requests in flight and its task finishes
TaskFinishes ==
    /\ run_pc = "gather"
    /\ \E i \in 1..Len(tasks) :
          /\ tasks[i].state = "pending"
          /\ \E resp \in {NetworkError} \cup
                          {Response(st, b) : st \in Statuses,
                                             b \in DetailPages(tasks[i].url)} :
                tasks' = [tasks EXCEPT ![i] =
                    [url |-> tasks[i].url,
                     response |-> resp,
                     state |-> IF fetch_url(resp).tag = "raise"
                               THEN "raised" ELSE "done",
                     result |-> fetch_url(resp)]]
          /\ completion' = Append(completion, i)
    /\ UNCHANGED <<run_pc, requests, listing, page_content, paper_cards, pages,
                   papers_data, run_result>>
    /\ UNCHANGED <<numVars, papers, extractorVars, modelsRunVars, appVars>>

\* a gather that collects exceptions as results waits for every task to
\* finish, failed or not
AllFinished(ts) == \A i \in 1..Len(ts) : ts[i].state \in {"done", "raised"}

\* a wait that returns at the first completed task
AnyDone(ts) == \E i \in 1..Len(ts) : ts[i].state = "done"

\* gather's future has its result once every task is done
AllDone(ts) == \A i \in 1..Len(ts) : ts[i].state = "done"

\* results collected as the tasks complete
ResultsAsCompleted(ts, order) == [i \in 1..Len(order) |-> ts[order[i]].result]

\* the list gather returns: the results in the order of the tasks given
GatherResults(ts, order) == [i \in 1..Len(ts) |-> ts[i].result]

\* pages = await asyncio.gather(*tasks), every task done
GatherReturns ==
    /\ run_pc = "gather"
    /\ AllDone(tasks)
    /\ pages' = GatherResults(tasks, completion)
    /\ run_pc' = "zip"
    /\ UNCHANGED <<requests, listing, page_content, paper_cards, tasks,
                   completion, papers_data, run_result>>
    /\ UNCHANGED <<numVars, papers, extractorVars, modelsRunVars, appVars>>

\* the first exception of a task is raised out of the await, and out of run;
\* asyncio.run then cancels the tasks still pending
GatherRaises ==
    /\ run_pc = "gather"
    /\ \E i \in 1..Len(tasks) : tasks[i].state = "raised"
    /\ LET first == CHOOSE j \in 1..Len(completion) :
                        /\ tasks[completion[j]].state = "raised"
                        /\ \A k \in 1..(j - 1) :
                              tasks[completion[k]].state # "raised"
       IN  run_result' = tasks[completion[first]].result
    /\ tasks' = [i \in 1..Len(tasks) |->
                    IF tasks[i].state = "pending"
                    THEN [tasks[i] EXCEPT !.state = "cancelled"] ELSE tasks[i]]
    /\ run_pc' = "failed"
    /\ UNCHANGED <<requests, listing, page_content, paper_cards, completion,
                   pages, papers_data>>
    /\ UNCHANGED <<numVars, papers, extractorVars, modelsRunVars, appVars>>

\* one iteration of: for (card, page) in zip(paper_cards.values(), pages)
ZipStep ==
    /\ run_pc = "zip"
    /\ Len(papers_data) < Len(paper_cards.keys)
    /\ Len(papers_data) < Len(pages)
    /\ LET i == Len(papers_data) + 1
       IN  papers_data' =
               Append(papers_data, PaperRecord(DictValues(paper_cards)[i], pages[i].page))
    /\ UNCHANGED <<run_pc, requests, listing, page_content, paper_cards, tasks,
                   completion, pages, run_result>>
    /\ UNCHANGED <<numVars, papers, extractorVars, modelsRunVars, appVars>>

\* return papers_data
RunReturns ==
    /\ run_pc = "zip"
    /\ \/ Len(papers_data) = Len(paper_cards.keys)
       \/ Len(papers_data) = Len(pages)
    /\ run_result' = [tag |-> "return", value |-> papers_data]
    /\ run_pc' = "done"
    /\ UNCHANGED <<requests, listing, page_content, paper_cards, tasks,
                   completion, pages, papers_data>>
    /\ UNCHANGED <<numVars, papers, extractorVars, modelsRunVars, appVars>>

Init ==
    /\ NormalizerIdle
    /\ CardsIdle
    /\ RunAt("fetch_listing")
    /\ ExtractorIdle
    /\ ModelsRunAt("idle")
    /\ AppAt("idle")

Next ==
    \/ FetchListing(PagesUpTo(RunArticles, MaxArticles))
    \/ ParseCards
    \/ Gather
    \/ TaskFinishes
    \/ GatherReturns
    \/ GatherRaises
    \/ ZipStep
    \/ RunReturns

Spec == Init /\ [][Next]_vars

(***************************************************************************)
(* Card Extractor (models).  An <article class="overview-card-wrapper"> is *)
(* what the extractor's lookups find in it (None: nothing found):          *)
(*   link       the href of its first <a href>                             *)
(*   h4         the text of the <h4> inside that link                      *)
(*   task       the string after its svg of class mr-1.5, NoString when    *)
(*              the svg is there and no string follows it                  *)
(*   params     the text of its span titled "Number of parameters"         *)
(*   time       the datetime attribute of its <time>                       *)
(*   downloads  the string after its download svg                          *)
(*   likes      the string after its like svg                              *)
(***************************************************************************)
NoString == [tag |-> "nostring"]

TimeTokens == {"10:00:00.000"}

\* datetime.fromisoformat: a calendar date, then nothing, a time, or a time
\* and a UTC offset
FromIsoFormat(s) ==
    IF /\ Len(s) >= 5
       /\ IsISODate(SubSeq(s, 1, 5))
       /\ \/ Len(s) = 5
          \/ Len(s) = 7 /\ s[6] = "T" /\ s[7] \in TimeTokens
          \/ Len(s) = 8 /\ s[6] = "T" /\ s[7] \in TimeTokens /\ s[8] = "+00:00"
    THEN [tag |-> "date", y |-> YearTokens[s[1]],
          m |-> CHOOSE m \in 1..12 : TwoDigits[m] = s[3],
          d |-> CHOOSE d \in 1..31 : TwoDigits[d] = s[5]]
    ELSE Raise("ValueError")

\* str.replace(old, new) on a token text
ReplaceToken(s, old, new) == [i \in 1..Len(s) |-> IF s[i] = old THEN new ELSE s[i]]

\* the last path segment of an href: what follows its last "/"
RECURSIVE LastSegment(_)
LastSegment(s) ==
    IF s = <<>> \/ s[Len(s)] = "/" THEN <<>>
    ELSE Append(LastSegment(DropLast(s)), s[Len(s)])

\* the identifier falls back to the last path segment of the link
ModelIdLastSegment(a) ==
    IF a.h4 # None THEN Str(Strip(a.h4.s)) ELSE Str(LastSegment(a.link.s))

\* model_id = h4.text.strip() if h4 else a_tag["href"].strip("/")
ModelId(a) ==
    IF a.h4 # None THEN Str(Strip(a.h4.s)) ELSE Str(StripChars(a.link.s, {"/"}))

\* the task block
Task(a) ==
    IF a.task = None THEN None
    ELSE IF a.task = NoString THEN Raise("AttributeError")
    ELSE Str(Strip(a.task.s))

\* the parameters block
Params(a) == IF a.params = None THEN None ELSE Str(Strip(a.params.s))

\* the updated block
Updated(a) ==
    IF a.time = None THEN None
    ELSE LET dt == FromIsoFormat(ReplaceToken(a.time.s, "Z", "+00:00"))
         IN  IF dt.tag = "raise" THEN dt ELSE Str(Strftime(dt))

\* the downloads block
Downloads(a) ==
    IF a.downloads = None THEN None ELSE parse_number(a.downloads.s)

\* if like_text and like_text.strip().isdigit(): likes = int(like_text.strip())
LikesOfDigits(like_text, likes) ==
    IF likes.tag = "raise" THEN likes
    ELSE IF IsDigit(Strip(like_text)) THEN IntOfStr(Strip(like_text))
    ELSE likes

\* the likes block
Likes(a) ==
    IF a.likes = None THEN None
    ELSE LikesOfDigits(a.likes.s, parse_number(a.likes.s))

\* the dict appended for an article with a link, or the exception a block
\* of the loop body raises
RecordOrRaise(a, task, updated, downloads, likes) ==
    IF task.tag = "raise" THEN task
    ELSE IF updated.tag = "raise" THEN updated
    ELSE IF downloads.tag = "raise" THEN downloads
    ELSE IF likes.tag = "raise" THEN likes
    ELSE [tag |-> "dict", model_id |-> ModelId(a), url |-> UrlOf(a.link),
          task |-> task, parameters |-> Params(a), updated |-> updated,
          downloads |-> downloads, likes |-> likes]

ModelRecord(a) == RecordOrRaise(a, Task(a), Updated(a), Downloads(a), Likes(a))

\* models.append({...}): a list that takes every record
AppendModel(ms, r) == Append(ms, r)

\* one iteration of the loop of parse_models on the list so far: the new
\* list, or the exception raised
AppendOrRaise(ms, r) ==
    IF r.tag = "raise" THEN r ELSE [tag |-> "list", value |-> AppendModel(ms, r)]

ModelStep(ms, a) ==
    IF a.link = None THEN [tag |-> "list", value |-> ms]
    ELSE AppendOrRaise(ms, ModelRecord(a))

\* CrawModels.parse_models on a page, its articles as a sequence
RECURSIVE parse_models(_)
parse_models(page) ==
    IF page = <<>> THEN [tag |-> "list", value |-> <<>>]
    ELSE LET before == parse_models(DropLast(page))
         IN  IF before.tag = "raise" THEN before
             ELSE ModelStep(before.value, page[Len(page)])

ModelHrefs == {Str(<<"/", "org", "/", "name">>), Str(<<"/", "name">>)}

ModelLabels == {Str(<<" ", "org/name", " ">>)}

\* what an article holds besides its link and label
ModelExtras ==
    LET none == [task |-> None, params |-> None, time |-> None,
                 downloads |-> None, likes |-> None]
    IN  {none,
         [task |-> Str(<<"Text Generation", " ">>), params |-> Str(<<"22B">>),
          time |-> Str(<<"2024", "-", "02", "-", "29", "T", "10:00:00.000", "Z">>),
          downloads |-> Str(<<"1", ".", "2", "k">>), likes |-> Str(<<"6", "6", "5">>)],
         [none EXCEPT !.likes = Str(<<"1", ".", "2", "k">>)],
         [none EXCEPT !.time = Str(<<"yesterday">>)],
         [none EXCEPT !.downloads = Str(<<"i", "n", "f", "k">>)],
         [none EXCEPT !.task = NoString]}

ModelArticles ==
    {[link |-> l, h4 |-> h, task |-> x.task, params |-> x.params,
      time |-> x.time, downloads |-> x.downloads, likes |-> x.likes] :
        l \in ModelHrefs, h \in ModelLabels \cup {None}, x \in ModelExtras}
    \cup {[link |-> None, h4 |-> None, task |-> None, params |-> None,
           time |-> None, downloads |-> None, likes |-> None]}

(***************************************************************************)
(* The model card extractor on any page of at most MaxArticles articles.   *)
(***************************************************************************)
InitModels ==
    /\ NormalizerIdle
    /\ CardsIdle
    /\ RunAt("idle")
    /\ ExtractorIdle
    /\ ModelsRunAt("idle")
    /\ AppAt("idle")

\* the loop goes on with the new list, or the exception ends it
LoopTakes(r) ==
    IF r.tag = "raise"
    THEN models_exc' = r /\ UNCHANGED models
    ELSE models' = r.value /\ UNCHANGED models_exc

\* the loop of parse_models takes the page's next article
NextModelArticle ==
    /\ models_exc = Unset
    /\ Len(model_page) < MaxArticles
    /\ \E a \in ModelArticles :
          /\ model_page' = Append(model_page, a)
          /\ LoopTakes(ModelStep(models, a))
    /\ UNCHANGED <<numVars, papers, runVars, modelsRunVars, appVars>>

NextModels == NextModelArticle

SpecModels == InitModels /\ [][NextModels]_vars

(***************************************************************************)
(* CrawModels.run.                                                         *)
(***************************************************************************)
\* page_content = await self.fetch_url(url)
ModelsFetchListing(bodies) ==
    /\ models_pc = "fetch_listing"
    /\ \E resp \in {NetworkError} \cup
                    {Response(st, b) : st \in Statuses, b \in bodies} :
          /\ models_listing' = resp
          /\ IF fetch_url(resp).tag = "raise"
             THEN models_pc' = "failed" /\ models_result' = fetch_url(resp)
             ELSE models_pc' = "parse_models" /\ UNCHANGED models_result
    /\ UNCHANGED <<numVars, papers, runVars, extractorVars, appVars>>

\* run returns the list, or the extractor's exception leaves it
RunTakes(r) ==
    IF r.tag = "raise"
    THEN models_pc' = "failed" /\ models_result' = r
    ELSE models_pc' = "done" /\ models_result' = [tag |-> "return", value |-> r.value]

\* models = await self.parse_models(page_content); return models
ParseModels ==
    /\ models_pc = "parse_models"
    /\ RunTakes(parse_models(fetch_url(models_listing).page))
    /\ UNCHANGED <<numVars, papers, runVars, extractorVars, appVars,
                   models_listing>>

(***************************************************************************)
(* analyze_app.load_data: run_crawlers awaits the paper crawler, then the  *)
(* model crawler, and returns the two tables.                              *)
(***************************************************************************)
\* most articles on a listing page when both pipelines are run
MaxAppArticles == 2

AppPaperArticles ==
    {a \in RunArticles : a.link \in {None, Str(<<"/papers/", "2401.00001">>)}}

AppModelArticles ==
    {a \in ModelArticles :
        /\ a.link \in {None, Str(<<"/", "org", "/", "name">>)}
        /\ a.h4 = None
        /\ a.task = None /\ a.likes = None /\ a.downloads = None}

\* a run that is under way
Active(pc) == pc \notin {"idle", "done", "failed"}

\* the coroutine is started without being awaited
PapersStarted == run_pc # "idle"

\* papers_data = await paper_crawler.run() has returned
PapersAwaited == run_pc = "done"

\* paper_crawler = CrawTrendingPapers(); papers_data = await paper_crawler.run()
AppStartPapers ==
    /\ app_pc = "start"
    /\ app_pc' = "papers"
    /\ run_pc' = "fetch_listing"
    /\ UNCHANGED <<requests, listing, page_content, paper_cards, tasks,
                   completion, pages, papers_data, run_result>>
    /\ UNCHANGED <<numVars, papers, extractorVars, modelsRunVars, app_result>>

\* papers_df is built; model_crawler = CrawModels();
\* models_data = await model_crawler.run()
AppStartModels ==
    /\ app_pc = "papers"
    /\ PapersAwaited
    /\ app_pc' = "models"
    /\ models_pc' = "fetch_listing"
    /\ UNCHANGED <<numVars, papers, runVars, extractorVars, models_listing,
                   models_result, app_result>>

\* an exception of either run leaves run_crawlers, asyncio.run and load_data
AppRaises ==
    /\ \/ app_pc = "papers" /\ run_pc = "failed" /\ app_result' = run_result
       \/ app_pc = "models" /\ models_pc = "failed" /\ app_result' = models_result
    /\ app_pc' = "raised"
    /\ UNCHANGED <<numVars, papers, runVars, extractorVars, modelsRunVars>>

\* return papers_df, models_df
AppReturns ==
    /\ app_pc = "models"
    /\ models_pc = "done"
    /\ app_pc' = "returned"
    /\ app_result' = [tag |-> "return", papers_df |-> run_result.value,
                      models_df |-> models_result.value]
    /\ UNCHANGED <<numVars, papers, runVars, extractorVars, modelsRunVars>>

InitApp ==
    /\ NormalizerIdle
    /\ CardsIdle
    /\ RunAt("idle")
    /\ ExtractorIdle
    /\ ModelsRunAt("idle")
    /\ AppAt("start")

NextApp ==
    \/ AppStartPapers
    \/ FetchListing(PagesUpTo(AppPaperArticles, MaxAppArticles))
    \/ ParseCards
    \/ Gather
    \/ TaskFinishes
    \/ GatherReturns
    \/ GatherRaises
    \/ ZipStep
    \/ RunReturns
    \/ AppStartModels
    \/ ModelsFetchListing(PagesUpTo(AppModelArticles, MaxAppArticles))
    \/ ParseModels
    \/ AppRaises
    \/ AppReturns

SpecApp == InitApp /\ [][NextApp]_vars

(***************************************************************************)
(* Properties of CrawTrendingPapers.run.                                   *)
(***************************************************************************)
\* the paper links of a page in the order they first appear
RECURSIVE Discovered(_)
Discovered(page) ==
    IF page = <<>> THEN <<>>
    ELSE LET before == Discovered(DropLast(page))
             a == page[Len(page)]
         IN  IF a.link = None \/ UrlOf(a.link) \in Range(before) THEN before
             ELSE Append(before, UrlOf(a.link))

CardFields == {"github", "arxiv", "upvotes", "published", "github_stars"}

\* C2: when run returns, one detail fetch was requested per discovered URL, in
\* discovery order, and the i-th record has the url and card fields of the
\* i-th discovered card and the title and abstract of the page fetched for
\* that same URL, whatever order the fetches completed in.
C2_BatchCountAndOrder ==
    run_pc = "done" =>
        LET urls == Discovered(listing.body)
            K == Len(urls)
            out == run_result.value
        IN  /\ paper_cards.keys = urls
            /\ requests = <<ListingUrl>> \o urls
            /\ Len(out) = K
            /\ \A i \in 1..K :
                  /\ out[i].url = urls[i]
                  /\ \A f \in CardFields : out[i][f] = paper_cards.at[urls[i]][f]
                  /\ \E j \in 1..Len(tasks) :
                        /\ tasks[j].url = urls[i]
                        /\ tasks[j].response.body \in DetailPages(urls[i])
                        /\ LET d == parse_paper_details(tasks[j].response.body)
                           IN  out[i].title = d.title /\ out[i].abstract = d.abstract

\* two fetches completed in the reverse of the order they were issued in
C2_Witness ==
    /\ run_pc = "done"
    /\ completion = <<2, 1>>
    /\ Len(run_result.value) = 2
    /\ run_result.value[1].title # Str(<<"N/A">>)

\* C3: once a detail fetch has failed the run can only fail: it returns no
\* record, not even for the pages that were fetched; and a failed listing
\* fetch fails the run before any detail fetch is issued.
C3_AllOrNothing ==
    /\ (\E i \in 1..Len(tasks) : tasks[i].state = "raised") =>
          /\ run_pc \in {"gather", "failed"}
          /\ pages = <<>>
          /\ papers_data = <<>>
          /\ run_result.tag \in {"unset", "raise"}
    /\ run_pc = "failed" => run_result.tag = "raise"
    /\ (listing # Unset /\ listing.kind = "error") =>
          /\ run_pc = "failed"
          /\ run_result.tag = "raise"
          /\ requests = <<ListingUrl>>
          /\ tasks = <<>>

\* the run has failed although one of its detail pages was fetched
C3_Witness ==
    /\ run_pc = "failed"
    /\ \E i \in 1..Len(tasks) : tasks[i].state = "done"
    /\ \E i \in 1..Len(tasks) : tasks[i].state = "raised"

\* C4: a fetch answered with a non-2xx status fails instead of returning
\* the page: a non-2xx listing response fails the run with nothing
\* extracted from its body, and a non-2xx detail response fails its task.
C4_Non2xxFails ==
    /\ (listing # Unset /\ listing.kind = "response" /\ ~Success(listing.status)) =>
          /\ run_pc = "failed"
          /\ page_content = Unset
          /\ paper_cards = Unset
    /\ \A i \in 1..Len(tasks) :
          (/\ tasks[i].response # Unset
           /\ tasks[i].response.kind = "response"
           /\ ~Success(tasks[i].response.status)) => tasks[i].state = "raised"

\* C10: every request of the batch is sent before any answer is taken; no
\* detail page is handed over or parsed and no record is built until every
\* fetch of the batch is done; the card map is never changed after the
\* extractor returned it.
C10_FanInBarrier ==
    /\ (\E i \in 1..Len(tasks) : tasks[i].state # "pending") =>
          requests = <<ListingUrl>> \o [i \in 1..Len(tasks) |-> tasks[i].url]
    /\ (pages # <<>> \/ papers_data # <<>> \/ run_pc \in {"zip", "done"}) =>
          /\ \A i \in 1..Len(tasks) : tasks[i].state = "done"
          /\ Len(tasks) = Len(paper_cards.keys)
    /\ paper_cards # Unset => paper_cards = parse_trending_cards(page_content.page)

\* the zip is under way on a batch of two pages
C10_Witness ==
    /\ run_pc = "zip"
    /\ Len(tasks) = 2
    /\ Len(papers_data) = 1

(***************************************************************************)
(* Properties of the normaliser.                                           *)
(***************************************************************************)
\* C5: for every text both parse_number functions give an integer or None
\* and never raise.
C5_NormalizerTotal ==
    num_result # Unset =>
        /\ num_result.models.tag \in {"int", "None"}
        /\ num_result.paper.tag \in {"int", "None"}

(***************************************************************************)
(* Properties of the paper card extractor.                                 *)
(***************************************************************************)
\* C1: the dict holds one entry per URL, and an article changes a field of
\* a card only to a value it provides: a field that holds a value is never
\* set back to None by a later article of the same URL.
C1_MergeKeepsValues ==
    [][/\ Cardinality(Range(papers'.keys)) = Len(papers'.keys)
       /\ \A u \in Range(papers.keys) : \A f \in CardFields :
             papers.at[u][f] # None => papers'.at[u][f] # None]_vars

\* C6, as the spec states it: upvotes and github_stars are non-negative
\* integers or None and published is an ISO date or None.
C6_FieldsNormalized ==
    \A u \in Range(papers.keys) :
        LET c == papers.at[u]
        IN  /\ \A f \in {"upvotes", "github_stars"} :
                  c[f] = None \/ (c[f].tag = "int" /\ c[f].val >= 0)
            /\ c.published = None \/ IsISODate(c.published.s)

\* C6, as the code has it: upvotes and github_stars are integers (negative
\* when the label carries a minus sign) or None, never text; published is
\* None, an ISO date, or the label's own text when strptime rejects it.
C6_FieldsIntOrFallback ==
    \A u \in Range(papers.keys) :
        LET c == papers.at[u]
        IN  /\ \A f \in {"upvotes", "github_stars"} : c[f].tag \in {"int", "None"}
            /\ \/ c.published = None
               \/ c.published.tag = "str" /\ IsISODate(c.published.s)
               \/ c.published.tag = "str" /\ Strptime(c.published.s).tag = "raise"

\* a card with a negative count, an unparsed label kept as it is, and
\* another with a normalised date
C6_Witness ==
    /\ \E u \in Range(papers.keys) :
          /\ papers.at[u].upvotes.tag = "int" /\ papers.at[u].upvotes.val < 0
          /\ papers.at[u].published # None /\ ~IsISODate(papers.at[u].published.s)
    /\ \E u \in Range(papers.keys) :
          /\ papers.at[u].published # None /\ IsISODate(papers.at[u].published.s)
          /\ papers.at[u].github_stars.tag = "int"

(***************************************************************************)
(* Properties of the model card extractor.                                 *)
(***************************************************************************)
\* the articles of a page that have a link
Linked(page) == SelectSeq(page, LAMBDA a : a.link # None)

\* r is s without the characters of chars at its two ends
IsStripOf(r, s, chars) ==
    \E i \in 1..(Len(s) + 1) : \E j \in 0..Len(s) :
        /\ r = SubSeq(s, i, j)
        /\ \A k \in 1..(i - 1) : s[k] \in chars
        /\ \A k \in (j + 1)..Len(s) : s[k] \in chars
        /\ r # <<>> => r[1] \notin chars /\ r[Len(r)] \notin chars

\* C7, as the spec states it: a card with no <h4> in its link has the last
\* path segment of the href as model_id, a card with one its stripped text.
C7_FallbackLastSegment ==
    \A i \in 1..Len(models) :
        LET a == Linked(model_page)[i]
        IN  /\ a.h4 = None => models[i].model_id.s = LastSegment(a.link.s)
            /\ a.h4 # None => IsStripOf(models[i].model_id.s, a.h4.s, Whitespace)

\* C7, as the code has it: a card with no <h4> in its link has the href
\* without its leading and trailing slashes as model_id ('/org/name'
\* gives 'org/name'), a card with one its stripped text.
C7_FallbackStrippedHref ==
    \A i \in 1..Len(models) :
        LET a == Linked(model_page)[i]
        IN  /\ models[i].url = UrlOf(a.link)
            /\ a.h4 = None => IsStripOf(models[i].model_id.s, a.link.s, {"/"})
            /\ a.h4 # None => IsStripOf(models[i].model_id.s, a.h4.s, Whitespace)

\* a card without a label whose link has two path segments, and a card
\* with a label
C7_Witness ==
    /\ \E i \in 1..Len(models) :
          /\ Linked(model_page)[i].h4 = None
          /\ Linked(model_page)[i].link = Str(<<"/", "org", "/", "name">>)
          /\ models[i].model_id = Str(<<"org", "/", "name">>)
    /\ \E i \in 1..Len(models) :
          /\ Linked(model_page)[i].h4 # None
          /\ models[i].model_id = Str(<<"org/name">>)

\* C9: parse_models returns at most one record per url.
C9_UniqueUrls ==
    \A i, j \in 1..Len(models) : models[i].url = models[j].url => i = j

(***************************************************************************)
(* Properties of load_data.                                                *)
(***************************************************************************)
\* C8, as the spec states it: the runs never overlap, the models pipeline
\* runs first and the papers pipeline second, and a failure of one does
\* not keep the other from producing its records.
C8_ModelsThenPapers ==
    /\ ~(Active(run_pc) /\ Active(models_pc))
    /\ run_pc # "idle" => models_pc \in {"done", "failed"}
    /\ app_pc = "raised" => run_pc # "idle" /\ models_pc # "idle"

\* C8, as the code has it: the runs never overlap, the papers pipeline
\* runs first and the models pipeline starts only once it has returned;
\* a failure of the papers pipeline ends load_data before the models
\* pipeline is started, and a failure of the models pipeline ends it
\* without the paper records; load_data returns the records of both runs
\* or raises.
C8_PapersThenModels ==
    /\ ~(Active(run_pc) /\ Active(models_pc))
    /\ models_pc # "idle" => run_pc = "done"
    /\ run_pc = "failed" => models_pc = "idle" /\ app_pc \in {"papers", "raised"}
    /\ models_pc = "failed" => app_pc \in {"models", "raised"}
    /\ app_pc = "raised" =>
          /\ app_result.tag = "raise"
          /\ run_pc = "failed" \/ models_pc = "failed"
    /\ app_pc = "returned" =>
          /\ run_pc = "done" /\ models_pc = "done"
          /\ app_result.tag = "return"
          /\ app_result.papers_df = run_result.value
          /\ app_result.models_df = models_result.value

\* the models pipeline is running after the papers pipeline returned a record
C8_Witness ==
    /\ app_pc = "models"
    /\ models_pc = "parse_models"
    /\ run_pc = "done"
    /\ Len(run_result.value) = 1

=============================================================================
